---- MODULE Spec2Model ----
(***************************************************************************)
(* A model of the color-art core: the rgb() text parser, the HSL <-> RGB   *)
(* converters, Color::average and Color::name.                             *)
(*                                                                         *)
(* An f64 is modelled as <<n, d, k>>: the fraction n/d in lowest terms     *)
(* (d > 0) scaled by 2^(-128 k).  Level 0 holds the ordinary values; a     *)
(* level k > 0 holds the values some 128 k binary orders of magnitude      *)
(* smaller, which an f64 holds as well (its least exponent is -1074).      *)
(* Arithmetic within a level is exact: the rounding of the last bit of an  *)
(* f64 result is not modelled.  Across levels it is what IEEE 754 makes    *)
(* of it: a product or quotient adds or subtracts the levels, and a sum    *)
(* is its larger operand, since the smaller one is far below half a unit   *)
(* in the last place of the larger (an f64 keeps 53 bits).                 *)
(* The special values are <<0, 0, 0>> (NaN), <<1, 0, 0>> (+inf) and        *)
(* <<-1, 0, 0>> (-inf); the arithmetic below then gives the IEEE answers   *)
(* for them (x/0 is an infinity, 0 * inf is NaN, every comparison with NaN *)
(* is false).                                                              *)
(***************************************************************************)
EXTENDS Integers, Sequences, FiniteSets, TLC

VARIABLES
    input,      \* how the parser's argument was assembled: [prefix, fields, sep, suffix]
    s,          \* the text handed to parser_rgb_str, a sequence of characters
    parsed,     \* what parser_rgb_str returned for s
    colors,     \* the list of colors built so far (the argument of Color::average)
    averaged,   \* the last call of Color::average: its argument and its result
    nOps,       \* how many colors were constructed or averaged so far
    color,      \* the color whose name is asked for
    named,      \* what Color::name and Color::hex returned for color
    hsl,        \* the argument of hsl2rgb
    rgb,        \* the argument of rgb2hsl
    out         \* the result of the last conversion

vars == <<input, s, parsed, colors, averaged, nOps, color, named, hsl, rgb, out>>

parserVars == <<input, s, parsed>>
colorVars == <<colors, averaged, nOps>>
nameVars == <<color, named>>
hslVars == <<hsl, rgb, out>>

(***************************************************************************)
(* f64 arithmetic on fractions                                             *)
(***************************************************************************)
Abs(n) == IF n < 0 THEN -n ELSE n

Sign(n) == IF n < 0 THEN -1 ELSE IF n > 0 THEN 1 ELSE 0

RECURSIVE Gcd(_, _)
Gcd(a, b) == IF b = 0 THEN a ELSE Gcd(b, a % b)

\* The f64 (n/d) * 2^(-128 k); a zero denominator is NaN or an infinity.
Scaled(n, d, k) ==
    IF d = 0 THEN <<Sign(n), 0, 0>>
    ELSE IF n = 0 THEN <<0, 1, 0>>
    ELSE LET g == Gcd(Abs(n), Abs(d))
         IN  <<Sign(d) * (n \div g), Abs(d) \div g, k>>

Frac(n, d) == Scaled(n, d, 0)

F(n) == <<n, 1, 0>>

NaN == <<0, 0, 0>>

IsNaN(x) == x = NaN

FNeg(x) == <<-x[1], x[2], x[3]>>

FAbs(x) == <<Abs(x[1]), x[2], x[3]>>

FAdd(x, y) ==
    IF x[2] = 0 \/ y[2] = 0 THEN Scaled(x[1] * y[2] + y[1] * x[2], x[2] * y[2], 0)
    ELSE IF x[1] = 0 THEN y
    ELSE IF y[1] = 0 THEN x
    ELSE IF x[3] = y[3] THEN Scaled(x[1] * y[2] + y[1] * x[2], x[2] * y[2], x[3])
    ELSE IF x[3] < y[3] THEN x
    ELSE y

FSub(x, y) == FAdd(x, FNeg(y))

FMul(x, y) == Scaled(x[1] * y[1], x[2] * y[2], x[3] + y[3])

FDiv(x, y) == Scaled(x[1] * y[2], x[2] * y[1], x[3] - y[3])

FLt(x, y) == FSub(x, y)[1] < 0

FLe(x, y) == ~IsNaN(x) /\ ~IsNaN(y) /\ (x = y \/ FSub(x, y)[1] < 0)

FGt(x, y) == FLt(y, x)

FGe(x, y) == FLe(y, x)

FEq(x, y) == ~IsNaN(x) /\ ~IsNaN(y) /\ x = y

\* f64::max and f64::min return the other operand when one is NaN.
FMax(x, y) == IF IsNaN(x) THEN y ELSE IF IsNaN(y) THEN x ELSE IF FLt(x, y) THEN y ELSE x

FMin(x, y) == IF IsNaN(x) THEN y ELSE IF IsNaN(y) THEN x ELSE IF FLt(y, x) THEN y ELSE x

\* Rust's % on f64 is fmod: the remainder of the truncated division, with
\* the sign of the dividend.  m is a positive integer; an x on a level
\* k > 0 is smaller than m and is its own remainder.
FRem(x, m) ==
    IF x[2] = 0 THEN NaN
    ELSE IF x[3] > 0 THEN x
    ELSE LET b == m * x[2]
             r == IF x[1] >= 0 THEN x[1] % b ELSE -((-x[1]) % b)
         IN  Scaled(r, x[2], x[3])

(***************************************************************************)
(* Text: a string is the sequence of its characters                        *)
(***************************************************************************)
UpperCase ==
    <<"A", "B", "C", "D", "E", "F", "G", "H", "I", "J", "K", "L", "M",
      "N", "O", "P", "Q", "R", "S", "T", "U", "V", "W", "X", "Y", "Z">>

LowerCase ==
    <<"a", "b", "c", "d", "e", "f", "g", "h", "i", "j", "k", "l", "m",
      "n", "o", "p", "q", "r", "s", "t", "u", "v", "w", "x", "y", "z">>

Digits == <<"0", "1", "2", "3", "4", "5", "6", "7", "8", "9">>

IsWhitespace(c) == c \in {" ", "\t", "\n"}

IsDigit(c) == \E i \in 1..10 : Digits[i] = c

DigitValue(c) == (CHOOSE i \in 1..10 : Digits[i] = c) - 1

\* str::trim: leading and trailing whitespace removed.
RECURSIVE trim_start(_)
trim_start(t) ==
    IF t # <<>> /\ IsWhitespace(Head(t)) THEN trim_start(Tail(t)) ELSE t

RECURSIVE trim_end(_)
trim_end(t) ==
    IF t # <<>> /\ IsWhitespace(t[Len(t)]) THEN trim_end(SubSeq(t, 1, Len(t) - 1)) ELSE t

trim(t) == trim_end(trim_start(t))

\* str::to_lowercase.
to_lowercase(t) ==
    [i \in 1..Len(t) |->
        IF \E j \in 1..26 : UpperCase[j] = t[i]
        THEN LowerCase[CHOOSE j \in 1..26 : UpperCase[j] = t[i]]
        ELSE t[i]]

\* str::replace(pat, ""): every non-overlapping match of pat, from the left, removed.
RECURSIVE remove(_, _)
remove(t, pat) ==
    IF Len(t) < Len(pat) THEN t
    ELSE IF SubSeq(t, 1, Len(pat)) = pat THEN remove(SubSeq(t, Len(pat) + 1, Len(t)), pat)
    ELSE <<Head(t)>> \o remove(Tail(t), pat)

\* str::split(","): the pieces between the commas, at least one piece.
RECURSIVE split(_, _)
split(t, piece) ==
    IF t = <<>> THEN <<piece>>
    ELSE IF Head(t) = "," THEN <<piece>> \o split(Tail(t), <<>>)
    ELSE split(Tail(t), Append(piece, Head(t)))

RECURSIVE DigitsValue(_, _)
DigitsValue(t, acc) ==
    IF t = <<>> THEN acc ELSE DigitsValue(Tail(t), 10 * acc + DigitValue(Head(t)))

RECURSIVE Pow10(_)
Pow10(n) == IF n = 0 THEN 1 ELSE 10 * Pow10(n - 1)

ParseOk(v) == [ok |-> TRUE, val |-> v]

ParseFail == [ok |-> FALSE, val |-> NaN]

\* str::parse::<f64>: an optional sign, then inf, infinity, nan, or decimal
\* digits with at most one point and at least one digit.  (The exponent
\* part, e followed by digits, is left out: no input of the model holds one.)
parse_f64(t) ==
    LET signed == t # <<>> /\ Head(t) \in {"+", "-"}
        sgn == IF signed /\ Head(t) = "-" THEN -1 ELSE 1
        body == IF signed THEN Tail(t) ELSE t
        low == to_lowercase(body)
        dots == {i \in 1..Len(body) : body[i] = "."}
        dot == IF dots = {} THEN Len(body) + 1 ELSE CHOOSE i \in dots : TRUE
        whole == SubSeq(body, 1, dot - 1)
        part == SubSeq(body, dot + 1, Len(body))
    IN  IF low \in {<<"i", "n", "f">>, <<"i", "n", "f", "i", "n", "i", "t", "y">>}
        THEN ParseOk(<<sgn, 0, 0>>)
        ELSE IF low = <<"n", "a", "n">> THEN ParseOk(NaN)
        ELSE IF /\ Cardinality(dots) <= 1
                /\ Len(whole) + Len(part) >= 1
                /\ \A i \in 1..Len(body) : i = dot \/ IsDigit(body[i])
        THEN ParseOk(Frac(sgn * DigitsValue(whole \o part, 0), Pow10(Len(part))))
        ELSE ParseFail

(***************************************************************************)
(* parser/rgb.rs                                                           *)
(***************************************************************************)
Ok(v) == [tag |-> "Ok", val |-> v, why |-> ""]

Err(why) == [tag |-> "Err", val |-> <<>>, why |-> why]

\* Option::unwrap on None: the thread panics.
Panic == [tag |-> "Panic", val |-> <<>>, why |-> "unwrap on None"]

\* The range check of one channel with its upper bound forgotten.
OutOfRangeNoUpper(v) == FLt(v, F(0))

\* The range check of one channel: v < 0.0 || v > 255.0.

OutOfRange(v) == FLt(v, F(0)) \/ FGt(v, F(255))

parser_rgb_str(t) ==
    LET t1 == trim(t)
        t2 == to_lowercase(t1)
        t3 == remove(t2, <<" ">>)
        t4 == remove(t3, <<"r", "g", "b", "(">>)
        t5 == remove(t4, <<")">>)
        it == split(t5, <<>>)
        r == parse_f64(it[1])
        g == parse_f64(it[2])
        b == parse_f64(it[3])
    IN  IF ~r.ok THEN Err("invalid float literal")
        ELSE IF Len(it) < 2 THEN Panic
        ELSE IF ~g.ok THEN Err("invalid float literal")
        ELSE IF Len(it) < 3 THEN Panic
        ELSE IF ~b.ok THEN Err("invalid float literal")
        ELSE IF OutOfRange(r.val) THEN Err("r must be between 0 and 255")
        ELSE IF OutOfRange(g.val) THEN Err("g must be between 0 and 255")
        ELSE IF OutOfRange(b.val) THEN Err("b must be between 0 and 255")
        ELSE Ok(<<r.val, g.val, b.val>>)

(***************************************************************************)
(* The parser's inputs                                                     *)
(***************************************************************************)
\* A field of the text: its characters and, when they are a decimal number,
\* the number they denote.
Number(text, n) == [text |-> text, numeric |-> TRUE, num |-> n]

NotNumber(text) == [text |-> text, numeric |-> FALSE, num |-> NaN]

FieldSamples ==
    { Number(<<"0">>, F(0)),
      Number(<<"2", "5", "5">>, F(255)),
      Number(<<"2", "5", "6">>, F(256)),
      Number(<<"-", "1">>, F(-1)),
      Number(<<"1", "2", ".", "5">>, Frac(25, 2)),
      NotNumber(<<"n", "a", "n">>) }

\* What stands before the first field and after the last one.
Prefixes ==
    { <<"r", "g", "b", "(">>,
      <<" ", "R", "G", "B", "(", " ">>,
      <<"r", "g", "b">>,
      <<"(">>,
      <<>>,
      <<"h", "s", "l", "(">> }

Suffixes == { <<")">>, <<>> }

Separators == { <<",", " ">> }

\* The longest list of fields tried.
MaxFields == 4

RECURSIVE FieldLists(_)
FieldLists(n) ==
    IF n = 0 THEN {<<>>}
    ELSE LET shorter == FieldLists(n - 1)
         IN  shorter \cup {Append(fs, f) : fs \in {x \in shorter : Len(x) = n - 1}, f \in FieldSamples}

RECURSIVE Join(_, _)
Join(fs, sep) ==
    IF fs = <<>> THEN <<>>
    ELSE IF Len(fs) = 1 THEN fs[1].text
    ELSE fs[1].text \o sep \o Join(Tail(fs), sep)

Text(in) == in.prefix \o Join(in.fields, in.sep) \o in.suffix

ParserInputs ==
    [prefix : Prefixes, fields : FieldLists(MaxFields), sep : Separators, suffix : Suffixes]

NotParsed == [tag |-> "none", val |-> <<>>, why |-> ""]

InitParser ==
    /\ input \in ParserInputs
    /\ s = Text(input)
    /\ parsed = NotParsed

CallParser ==
    /\ parsed.tag = "none"
    /\ parsed' = parser_rgb_str(s)
    /\ UNCHANGED <<input, s>>

(***************************************************************************)
(* Color, color_generator/average.rs                                       *)
(***************************************************************************)
Clamp(v, lo, hi) == IF FLt(v, lo) THEN lo ELSE IF FGt(v, hi) THEN hi ELSE v

\* Color::new: the channels clamped to [0, 255] and alpha to [0, 1].
ColorNew(r, g, b, a) ==
    [rgb |-> <<Clamp(r, F(0), F(255)), Clamp(g, F(0), F(255)), Clamp(b, F(0), F(255))>>,
     alpha |-> Clamp(a, F(0), F(1))]

\* Color::from_str on an rgb() text: the parser's tuple, opaque.
ColorFromRgb(v) == [rgb |-> v, alpha |-> F(1)]

\* A fold closure that adds the green channel into the blue sum.
fold_step_green_twice(acc, c) ==
    <<FAdd(acc[1], c.rgb[1]), FAdd(acc[2], c.rgb[2]), FAdd(acc[3], c.rgb[2]),
      FAdd(acc[4], c.alpha)>>

\* The closure of the fold: one color added to the four running sums.
fold_step(acc, c) ==
    <<FAdd(acc[1], c.rgb[1]), FAdd(acc[2], c.rgb[2]), FAdd(acc[3], c.rgb[3]),
      FAdd(acc[4], c.alpha)>>

RECURSIVE fold(_, _)
fold(cs, acc) == IF cs = <<>> THEN acc ELSE fold(Tail(cs), fold_step(acc, Head(cs)))

\* The list's four sums, each divided by the length of the list.
means(cs) ==
    LET sums == fold(cs, <<F(0), F(0), F(0), F(0)>>)
    IN  [i \in 1..4 |-> FDiv(sums[i], F(Len(cs)))]

\* Color::average without its early return for the empty list.
average_unguarded(cs) ==
    LET vec == means(cs)
    IN  ColorNew(vec[1], vec[2], vec[3], vec[4])

\* Color::average.
average(cs) ==
    IF cs = <<>> THEN ColorNew(F(0), F(0), F(0), F(1))
    ELSE LET vec == means(cs)
         IN  ColorNew(vec[1], vec[2], vec[3], vec[4])

(***************************************************************************)
(* The colors made                                                         *)
(***************************************************************************)
\* The texts parsed into colors: rgb(r, g, b) with these fields.
RedTexts == {<<"0">>, <<"2", "5", "5">>, <<"2", "5", "6">>, <<"n", "a", "n">>}

GreenTexts == {<<"0">>, <<"1", "0", "2">>}

BlueTexts == {<<"2", "5", "5">>}

ColorTexts ==
    {<<"r", "g", "b", "(">> \o r \o <<",", " ">> \o g \o <<",", " ">> \o b \o <<")">> :
        r \in RedTexts, g \in GreenTexts, b \in BlueTexts}

\* The arguments Color::new is called with.
NewArgs ==
    { <<F(0), F(0), F(0), F(0)>>,
      <<F(300), F(-5), F(51), Frac(1, 2)>>,
      <<F(64), F(128), Frac(65, 2), F(2)>> }

\* The number of colors constructed, parsed or averaged in one run.
MaxOps == 4

NoAverage == [fn |-> "none", of |-> <<>>, res |-> ColorNew(F(0), F(0), F(0), F(0))]

InitColor ==
    /\ colors = <<>>
    /\ averaged = NoAverage
    /\ nOps = 0

\* Color::from_str(text): a color is made when the parser accepts the text.
FromStr ==
    /\ nOps < MaxOps
    /\ \E text \in ColorTexts :
        LET p == parser_rgb_str(text)
        IN  /\ p.tag = "Ok"
            /\ colors' = Append(colors, ColorFromRgb(p.val))
    /\ nOps' = nOps + 1
    /\ UNCHANGED averaged

\* Color::new(r, g, b, alpha).
New ==
    /\ nOps < MaxOps
    /\ \E a \in NewArgs : colors' = Append(colors, ColorNew(a[1], a[2], a[3], a[4]))
    /\ nOps' = nOps + 1
    /\ UNCHANGED averaged

\* Color::average(&colors); the result is a color like the others and
\* starts the next list.
Average ==
    /\ nOps < MaxOps
    /\ averaged' = [fn |-> "average", of |-> colors, res |-> average(colors)]
    /\ colors' = <<average(colors)>>
    /\ nOps' = nOps + 1

(***************************************************************************)
(* color/stringify.rs: hex and name                                        *)
(***************************************************************************)
HexDigits ==
    <<"0", "1", "2", "3", "4", "5", "6", "7", "8", "9", "a", "b", "c", "d", "e", "f">>

\* f64::round then `as u8`: the nearest integer, halves away from zero,
\* saturated to 0..255 (NaN becomes 0).
RoundU8(x) ==
    IF x[2] = 0 THEN (IF x[1] > 0 THEN 255 ELSE 0)
    ELSE IF x[1] <= 0 \/ x[3] > 0 THEN 0
    ELSE LET n == (2 * x[1] + x[2]) \div (2 * x[2])
         IN  IF n > 255 THEN 255 ELSE n

HexByte(v) == <<HexDigits[(v \div 16) + 1], HexDigits[(v % 16) + 1]>>

\* conversion::hex::rgb2hex: "#rrggbb".
rgb2hex(c) == <<"#">> \o HexByte(RoundU8(c[1])) \o HexByte(RoundU8(c[2])) \o HexByte(RoundU8(c[3]))

\* conversion::hex::rgba2hex: "#rrggbbaa".
rgba2hex(c, a) == rgb2hex(c) \o HexByte(RoundU8(FMul(a, F(255))))

\* utils::hex::simplify_hex: the short form when both digits of every
\* channel are the same.
simplify_hex(h) ==
    IF \A i \in 1..((Len(h) - 1) \div 2) : h[2 * i] = h[2 * i + 1]
    THEN <<"#">> \o [i \in 1..((Len(h) - 1) \div 2) |-> h[2 * i]]
    ELSE h

\* data::name_of_hex: the entries for white and teal, which the tests of
\* stringify.rs show, and the CSS3 names of the other colors whose channels
\* are all 00 or ff.
NameTable ==
    { <<<<"#", "f", "f", "f", "f", "f", "f">>, "white">>,
      <<<<"#", "0", "0", "8", "0", "8", "0">>, "teal">>,
      <<<<"#", "0", "0", "0", "0", "0", "0">>, "black">>,
      <<<<"#", "f", "f", "0", "0", "0", "0">>, "red">>,
      <<<<"#", "0", "0", "f", "f", "0", "0">>, "lime">>,
      <<<<"#", "0", "0", "0", "0", "f", "f">>, "blue">>,
      <<<<"#", "f", "f", "f", "f", "0", "0">>, "yellow">>,
      <<<<"#", "0", "0", "f", "f", "f", "f">>, "aqua">>,
      <<<<"#", "f", "f", "0", "0", "f", "f">>, "fuchsia">> }

HasName(h) == \E e \in NameTable : e[1] = h

name_of_hex(h) == (CHOOSE e \in NameTable : e[1] = h)[2]

\* Color::hex.
hex(c) ==
    IF FEq(c.alpha, F(1)) THEN simplify_hex(rgb2hex(c.rgb))
    ELSE simplify_hex(rgba2hex(c.rgb, c.alpha))

\* Color::name.
name(c) ==
    IF FEq(c.alpha, F(1))
    THEN IF HasName(rgb2hex(c.rgb)) THEN name_of_hex(rgb2hex(c.rgb)) ELSE rgb2hex(c.rgb)
    ELSE hex(c)

\* The colors named: every channel one of these, alpha one of those.
NameChannels == {F(0), F(17), F(42), F(128), F(255)}

NameAlphas == {F(1), Frac(1, 2), Frac(1, 5)}

NameColors ==
    {ColorNew(r, g, b, a) : r \in NameChannels, g \in NameChannels, b \in NameChannels,
                            a \in NameAlphas}

NotNamed == [fn |-> "none", name |-> <<>>, hex |-> <<>>]

InitName ==
    /\ color \in NameColors
    /\ named = NotNamed

CallName ==
    /\ named.fn = "none"
    /\ named' = [fn |-> "name", name |-> name(color), hex |-> hex(color)]
    /\ UNCHANGED color

(***************************************************************************)
(* conversion/hsl.rs                                                       *)
(***************************************************************************)
\* utils::normalize_color: the 0-255 channels scaled to 0-1.
normalize_color(c) == [i \in 1..3 |-> FDiv(c[i], F(255))]

\* A sector guard that leaves out its lower end.
InSectorOpen(k, h) == FGt(h, F(60 * (k - 1))) /\ FLt(h, F(60 * k))

\* The guard of the k-th arm of hsl2rgb's match, k in 1..6.
InSector(k, h) == FGe(h, F(60 * (k - 1))) /\ FLt(h, F(60 * k))

\* A conversion either returns a vector or panics.
Returned(v) == [ok |-> TRUE, val |-> v]

Panicked == [ok |-> FALSE, val |-> <<>>]

hsl2rgb(c) ==
    LET h == c[1]
        sat == c[2]
        l == c[3]
        ch == FMul(FSub(F(1), FAbs(FSub(FMul(F(2), l), F(1)))), sat)
        x == FMul(ch, FSub(F(1), FAbs(FSub(FRem(FDiv(h, F(60)), 2), F(1)))))
        m == FSub(l, FDiv(ch, F(2)))
        z == F(0)
        scale(v) == [i \in 1..3 |-> FMul(FAdd(v[i], m), F(255))]
    IN  IF InSector(1, h) THEN Returned(scale(<<ch, x, z>>))
        ELSE IF InSector(2, h) THEN Returned(scale(<<x, ch, z>>))
        ELSE IF InSector(3, h) THEN Returned(scale(<<z, ch, x>>))
        ELSE IF InSector(4, h) THEN Returned(scale(<<z, x, ch>>))
        ELSE IF InSector(5, h) THEN Returned(scale(<<x, z, ch>>))
        ELSE IF InSector(6, h) THEN Returned(scale(<<ch, z, x>>))
        ELSE Panicked

\* The wraparound of a negative hue at the end of rgb2hsl.
WrapHue(h) == IF FLt(h, F(0)) THEN FAdd(h, F(360)) ELSE h

rgb2hsl(c) ==
    LET n == normalize_color(c)
        r == n[1]
        g == n[2]
        b == n[3]
        max == FMax(FMax(r, g), b)
        min == FMin(FMin(r, g), b)
        l == FDiv(FAdd(max, min), F(2))
        delta == FSub(max, min)
        \* the arm of `match max` that is taken: the first whose guard holds
        arm == IF FEq(max, r) THEN 1
               ELSE IF FEq(max, g) THEN 2
               ELSE IF FEq(max, b) THEN 3
               ELSE 0
        h == IF arm = 1 THEN FMul(F(60), FRem(FDiv(FSub(g, b), delta), 6))
             ELSE IF arm = 2 THEN FMul(F(60), FAdd(FDiv(FSub(b, r), delta), F(2)))
             ELSE FMul(F(60), FAdd(FDiv(FSub(r, g), delta), F(4)))
        sat == FDiv(delta, FSub(F(1), FAbs(FSub(FMul(F(2), l), F(1)))))
    IN  IF ~FEq(delta, F(0))
        THEN IF arm = 0 THEN Panicked ELSE Returned(<<WrapHue(h), sat, l>>)
        ELSE Returned(<<F(0), F(0), l>>)

\* hsl2rgb applied to what rgb2hsl returned.
roundtrip(c) ==
    LET fwd == rgb2hsl(c)
    IN  IF fwd.ok THEN hsl2rgb(fwd.val) ELSE Panicked

(***************************************************************************)
(* The conversions' inputs                                                 *)
(***************************************************************************)
\* Hues are the multiples of 1/HueDen from -HueMargin to 360 + HueMargin.
HueDen == 2

HueMargin == 12

\* 2^-128, a positive f64 far below the unit in the last place of 1.
Tiny == <<1, 1, 1>>

Hues ==
    {Frac(k, HueDen) : k \in (-HueMargin * HueDen)..((360 + HueMargin) * HueDen)}
        \cup {Tiny, FNeg(Tiny)}

\* Saturations and lightnesses.
Units == {Frac(k, 2) : k \in 0..2}

HslInputs == {<<h, u, v>> : h \in Hues, u \in Units, v \in Units}

\* Channels are the multiples of ChanStride/2 in [0, 255], with 1/2, 127.5,
\* 254 and 255 (whole and half values, as parsing and averaging produce)
\* and 2^-128.
ChanStride == 30

Channels ==
    {Frac(k, 2) : k \in {j \in 0..510 : j % ChanStride = 0 \/ j \in {1, 255, 508, 510}}}
        \cup {Tiny}

RgbInputs == {<<r, g, b>> : r \in Channels, g \in Channels, b \in Channels}

NoCall == [fn |-> "none", ok |-> TRUE, val |-> <<>>]

Call(fn, res) == [fn |-> fn, ok |-> res.ok, val |-> res.val]

InitHsl ==
    /\ \/ hsl \in HslInputs /\ rgb = <<>>
       \/ rgb \in RgbInputs /\ hsl = <<>>
    /\ out = NoCall

CallHsl2Rgb ==
    /\ hsl # <<>>
    /\ out.fn = "none"
    /\ out' = Call("hsl2rgb", hsl2rgb(hsl))
    /\ UNCHANGED <<hsl, rgb>>

CallRgb2Hsl ==
    /\ rgb # <<>>
    /\ out.fn = "none"
    /\ out' = Call("rgb2hsl", rgb2hsl(rgb))
    /\ UNCHANGED <<hsl, rgb>>

CallRoundTrip ==
    /\ rgb # <<>>
    /\ out.fn = "none"
    /\ out' = Call("roundtrip", roundtrip(rgb))
    /\ UNCHANGED <<hsl, rgb>>


(***************************************************************************)
(* Specifications                                                          *)
(***************************************************************************)
IdleParser ==
    /\ input = [prefix |-> <<>>, fields |-> <<>>, sep |-> <<>>, suffix |-> <<>>]
    /\ s = <<>>
    /\ parsed = NotParsed

IdleColor == colors = <<>> /\ averaged = NoAverage /\ nOps = 0

IdleName == color = ColorNew(F(0), F(0), F(0), F(0)) /\ named = NotNamed

IdleHsl == hsl = <<>> /\ rgb = <<>> /\ out = NoCall

\* The rgb() parser on its own.
ParserOnly == InitParser /\ IdleColor /\ IdleName /\ IdleHsl

NextParser == CallParser /\ UNCHANGED <<colorVars, nameVars, hslVars>>

SpecParser == ParserOnly /\ [][NextParser]_vars

\* Colors made by parsing, by Color::new and by averaging.
ColorOnly == InitColor /\ IdleParser /\ IdleName /\ IdleHsl

NextColor ==
    \/ FromStr /\ UNCHANGED <<parserVars, nameVars, hslVars>>
    \/ New /\ UNCHANGED <<parserVars, nameVars, hslVars>>
    \/ Average /\ UNCHANGED <<parserVars, nameVars, hslVars>>

SpecColor == ColorOnly /\ [][NextColor]_vars

\* Color::name and Color::hex.
NameOnly == InitName /\ IdleParser /\ IdleColor /\ IdleHsl

NextName == CallName /\ UNCHANGED <<parserVars, colorVars, hslVars>>

SpecName == NameOnly /\ [][NextName]_vars

\* The HSL converters.
HslOnly == InitHsl /\ IdleParser /\ IdleColor /\ IdleName

NextHsl ==
    \/ CallHsl2Rgb /\ UNCHANGED <<parserVars, colorVars, nameVars>>
    \/ CallRgb2Hsl /\ UNCHANGED <<parserVars, colorVars, nameVars>>
    \/ CallRoundTrip /\ UNCHANGED <<parserVars, colorVars, nameVars>>

SpecHsl == HslOnly /\ [][NextHsl]_vars


(***************************************************************************)
(* Properties                                                              *)
(***************************************************************************)
InByteRange(v) == FGe(v, F(0)) /\ FLe(v, F(255))

InUnitRange(v) == FGe(v, F(0)) /\ FLe(v, F(1))

\* The wrapper of the text is rgb( ... ), whatever its case and spacing.
WrapperOk(in) ==
    /\ remove(to_lowercase(in.prefix), <<" ">>) = <<"r", "g", "b", "(">>
    /\ in.suffix = <<")">>

ThreeNumbers(in) ==
    /\ Len(in.fields) = 3
    /\ \A i \in 1..3 : in.fields[i].numeric

Numbers(in) == [i \in 1..3 |-> in.fields[i].num]

\* C1: on a well-formed rgb(r, g, b) text with three numeric fields the
\* parser returns Ok((r, g, b)), the numbers the fields denote, exactly when
\* each of them lies in [0, 255], and an error otherwise.
C1_RangeValidation ==
    (parsed.tag # "none" /\ WrapperOk(input) /\ ThreeNumbers(input)) =>
        IF \A i \in 1..3 : InByteRange(Numbers(input)[i])
        THEN parsed = Ok(Numbers(input))
        ELSE parsed.tag = "Err"

\* A well-formed text with a channel of 255 has been parsed and accepted.
C1_Witness ==
    /\ parsed.tag = "Ok"
    /\ WrapperOk(input)
    /\ ThreeNumbers(input)
    /\ Numbers(input)[1] = F(255)

\* C2: whenever the comma split of the text yields a number of fields other
\* than 3, fewer or more, the parser returns an error result.
C2_ArityError ==
    (parsed.tag # "none" /\ Len(split(s, <<>>)) # 3) => parsed.tag = "Err"

\* C3: whenever the wrapper is malformed (no opening parenthesis, no closing
\* parenthesis, no or another function token) the parser returns an error,
\* also when the three fields are numbers in [0, 255].
C3_WrapperError ==
    (/\ parsed.tag # "none"
     /\ ~WrapperOk(input)
     /\ ThreeNumbers(input)
     /\ \A i \in 1..3 : InByteRange(Numbers(input)[i])) => parsed.tag = "Err"

\* The sum of channel i (4 is alpha) over the first k colors of cs.
RECURSIVE ChannelSum(_, _, _)
ChannelSum(cs, i, k) ==
    IF k = 0 THEN F(0)
    ELSE FAdd(ChannelSum(cs, i, k - 1), IF i = 4 THEN cs[k].alpha ELSE cs[k].rgb[i])

Reordered(cs) == {[k \in 1..Len(cs) |-> cs[p[k]]] : p \in Permutations(1..Len(cs))}

\* C4: the average of a non-empty list holds, in each of R, G, B and alpha,
\* the sum of that channel over the list divided by the length of the list,
\* and every reordering of the list has the same average.
C4_ChannelMeans ==
    (averaged.fn = "average" /\ averaged.of # <<>>) =>
        LET cs == averaged.of
            n == Len(cs)
        IN  /\ \A i \in 1..3 : averaged.res.rgb[i] = FDiv(ChannelSum(cs, i, n), F(n))
            /\ averaged.res.alpha = FDiv(ChannelSum(cs, 4, n), F(n))
            /\ \A other \in Reordered(cs) : average(other) = averaged.res

\* Two colors that differ in every channel and in alpha have been averaged.
C4_Witness ==
    /\ averaged.fn = "average"
    /\ Len(averaged.of) = 2
    /\ \A i \in 1..3 : averaged.of[1].rgb[i] # averaged.of[2].rgb[i]
    /\ averaged.of[1].alpha # averaged.of[2].alpha

\* C5: the average of the empty list is opaque black.
C5_EmptyIsOpaqueBlack ==
    (averaged.fn = "average" /\ averaged.of = <<>>) =>
        averaged.res = [rgb |-> <<F(0), F(0), F(0)>>, alpha |-> F(1)]

\* The empty list has been averaged.
C5_Witness == averaged.fn = "average" /\ averaged.of = <<>>

ColorInRange(c) == (\A i \in 1..3 : InByteRange(c.rgb[i])) /\ InUnitRange(c.alpha)

\* C6: every color made by parsing an accepted rgb text or by averaging
\* colors made before has R, G and B in [0, 255] and alpha in [0, 1].
C6_ChannelsInRange ==
    /\ \A k \in 1..Len(colors) : ColorInRange(colors[k])
    /\ averaged.fn = "average" => ColorInRange(averaged.res)

\* C7: name() is the table's name when alpha is 1 and the table has an
\* entry for the color's hex, and in every other case the string hex()
\* returns.
C7_NameOrOwnHex ==
    named.fn = "name" =>
        IF FEq(color.alpha, F(1)) /\ HasName(rgb2hex(color.rgb))
        THEN named.name = name_of_hex(rgb2hex(color.rgb))
        ELSE named.name = named.hex

HueInRange(h) == FGe(h, F(0)) /\ FLt(h, F(360))

\* C8: hsl2rgb returns for every hue in [0, 360), each such hue lying in
\* exactly one of the six sectors, and fails for every other hue, 360 and
\* the negative ones included.
C8_SectorsCoverHues ==
    out.fn = "hsl2rgb" =>
        LET sectors == {k \in 1..6 : InSector(k, hsl[1])}
        IN  IF HueInRange(hsl[1])
            THEN out.ok /\ Cardinality(sectors) = 1
            ELSE ~out.ok /\ sectors = {}

\* hsl2rgb has been called with a hue of 360 and has failed.
C8_Witness == out.fn = "hsl2rgb" /\ hsl[1] = F(360) /\ ~out.ok

\* C9: hsl2rgb(rgb2hsl(rgb)) does not fail and gives back each channel to
\* within half a unit of the 0-255 scale.
C9_RoundTrip ==
    out.fn = "roundtrip" =>
        /\ out.ok
        /\ \A i \in 1..3 : FLe(FAbs(FSub(out.val[i], rgb[i])), Frac(1, 2))

\* C10: rgb2hsl returns a hue in [0, 360), and hue 0 and saturation 0 when
\* the three channels are equal.
C10_HueInRange ==
    out.fn = "rgb2hsl" =>
        /\ out.ok
        /\ HueInRange(out.val[1])
        /\ (rgb[1] = rgb[2] /\ rgb[2] = rgb[3]) => (out.val[1] = F(0) /\ out.val[2] = F(0))

====
